---- MODULE Spec2Model ----
(***************************************************************************)
(* The Lanyard presence client of src/lanyard-integration.js               *)
(* (class LanyardIntegration, lines 2-234): the one-shot fetch, the        *)
(* WebSocket lifecycle with bounded reconnection, the fallback generator,  *)
(* the teardown, and the DOM renderer (updateStatus / updateActivity).     *)
(*                                                                         *)
(* Every browser task (a settled promise of init, a WebSocket event, a     *)
(* timer callback, the beforeunload handler) runs to completion on the     *)
(* single UI thread, so each is one action.                                *)
(***************************************************************************)
EXTENDS Integers, Sequences, FiniteSets, TLC

VARIABLES
    pc,                 \* position of the async init(): "fetch", "json", "done"
    websocket,          \* this.websocket: 0 is null, otherwise an index of socks
    socks,              \* every WebSocket object created so far
    reconnectAttempts,  \* this.reconnectAttempts
    timers,             \* pending setTimeout reconnections (their delays, ms)
    intervals,          \* number of live setInterval(updateFallbackStatus)
    dom,                \* the part of the page the renderer reads and writes
    fallbackCalls,      \* history: number of calls of useFallback
    destroyed,          \* history: destroy() has been called
    failures,           \* history: unclean closes since the last open event
    retries,            \* history: reconnections scheduled since the last open
    lastData,           \* history: d of the latest data message received
    dom0,               \* history: the page as it was at construction
    ev,                 \* history: the event handled by the last step
    arg,                \* history: the snapshot handed to the renderer last
    out,                \* messages sent on sockets during the last step
    threw               \* the last handler ended with an uncaught exception

vars == <<pc, websocket, socks, reconnectAttempts, timers, intervals, dom,
          fallbackCalls, destroyed, failures, retries, lastData, dom0, ev,
          arg, out, threw>>

(***************************************************************************)
(* Bounds of the model and constants of the program.                       *)
(***************************************************************************)
MaxSockets == 7
MaxActs == 2
maxReconnectAttempts == 5
BaseDelay == 3000

\* JavaScript's undefined, for a property that is absent.
UNDEF == "<undefined>"

\* JavaScript truthiness of a string-or-undefined value.
Truthy(v) == v \notin {UNDEF, ""}

(***************************************************************************)
(* Presence snapshots and activity descriptors.                            *)
(***************************************************************************)
Game == [type |-> 0, name |-> "Game", details |-> "Level 1",
         state |-> UNDEF, emoji |-> UNDEF]
Spotify == [type |-> 2, name |-> "Spotify", details |-> "Song",
            state |-> "Artist", emoji |-> UNDEF]
CustomStatus == [type |-> 4, name |-> "Custom Status", details |-> UNDEF,
                 state |-> "busy", emoji |-> "fire"]
CustomEmojiOnly == [type |-> 4, name |-> "Custom Status", details |-> UNDEF,
                    state |-> UNDEF, emoji |-> "fire"]
CustomTextOnly == [type |-> 4, name |-> "Custom Status", details |-> UNDEF,
                   state |-> "afk", emoji |-> UNDEF]
Watching == [type |-> 3, name |-> "Film", details |-> UNDEF,
             state |-> UNDEF, emoji |-> UNDEF]

Descriptors ==
    {Game, Spotify, CustomStatus, CustomEmojiOnly, CustomTextOnly, Watching}

ActivityLists == UNION {[1..n -> Descriptors] : n \in 0..MaxActs}

Recognized == {"online", "idle", "dnd", "offline"}

\* Names every object literal inherits from Object.prototype.
ProtoProps == {"constructor"}

Statuses == Recognized \cup {"invisible", UNDEF} \cup ProtoProps

\* A snapshot may lack its activities property.
Snapshots ==
    [discord_status : Statuses, activities : ActivityLists]
        \cup [discord_status : Statuses]

NoSnap == [discord_status |-> "<none>", activities |-> <<>>]

\* The snapshots the network actions draw from.
WireSnapshots ==
    { [discord_status |-> "online", activities |-> <<Game, Spotify>>],
      [discord_status |-> "dnd", activities |-> <<>>],
      [discord_status |-> "offline", activities |-> <<Game>>] }

(***************************************************************************)
(* The renderer.                                                           *)
(***************************************************************************)
NoHTML == [kind |-> "", name |-> "", details |-> ""]

\* What Array.prototype.find returns when nothing matches.
NotFound == [type |-> -1, name |-> UNDEF, details |-> UNDEF,
             state |-> UNDEF, emoji |-> UNDEF]

Found(a) == a # NotFound

\* Array.prototype.find: the element at the first of the matching indices.
Find(seq, hits) ==
    IF hits = {} THEN NotFound
    ELSE seq[CHOOSE i \in hits : \A j \in hits : i <= j]

IsGame(a) == a.type = 0 /\ a.name # "Spotify" /\ a.name # "Custom Status"

IsCustom(a) == a.type = 4

IsSpotify(a) == a.name = "Spotify"

\* Template-literal interpolation of a possibly undefined value.
Interp(v) == IF v = UNDEF THEN "undefined" ELSE v

statusConfigOffline ==
    [truthy |-> TRUE, color |-> "#333", text |-> "Offline",
     shadow |-> "0 0 5px #333"]

\* statusConfig[status]: own entries first, then the prototype chain.
statusConfigGet(status) ==
    CASE status = "online" ->
            [truthy |-> TRUE, color |-> "#555", text |-> "Online",
             shadow |-> "0 0 5px #555"]
      [] status = "idle" ->
            [truthy |-> TRUE, color |-> "#666", text |-> "Away",
             shadow |-> "0 0 5px #666"]
      [] status = "dnd" ->
            [truthy |-> TRUE, color |-> "#777", text |-> "Busy",
             shadow |-> "0 0 5px #777"]
      [] status = "offline" -> statusConfigOffline
      [] status \in ProtoProps ->
            \* an inherited function object: truthy, with no such fields
            [truthy |-> TRUE, color |-> UNDEF, text |-> UNDEF,
             shadow |-> UNDEF]
      [] OTHER ->
            [truthy |-> FALSE, color |-> UNDEF, text |-> UNDEF,
             shadow |-> UNDEF]

\* statusConfig[status] || statusConfig.offline
configOf(status) ==
    IF statusConfigGet(status).truthy THEN statusConfigGet(status)
    ELSE statusConfigOffline

\* Assigning to a CSS style property: "undefined" does not parse and the
\* declaration is left as it was.
SetStyle(old, v) == IF v = UNDEF THEN old ELSE v

\* Assigning to textContent: undefined becomes the empty text.
SetText(v) == IF v = UNDEF THEN "" ELSE v

\* A variant that does not look at the status.
notOfflineMutantIgnored(status) == TRUE

notOffline(status) == status # "offline"

\* The branch updateActivity takes: the markup it writes, or NoHTML when it
\* hides the element.
shownActivity(activities, status) ==
    LET gameActivity ==
            Find(activities, {i \in DOMAIN activities : IsGame(activities[i])})
        customStatus ==
            Find(activities, {i \in DOMAIN activities : IsCustom(activities[i])})
        spotifyActivity ==
            Find(activities, {i \in DOMAIN activities : IsSpotify(activities[i])})
    IN IF Found(gameActivity) /\ notOffline(status)
       THEN [kind |-> "Playing", name |-> gameActivity.name,
             details |-> IF Truthy(gameActivity.details)
                         THEN gameActivity.details ELSE ""]
       ELSE IF Found(spotifyActivity) /\ notOffline(status)
       THEN [kind |-> "Listening to", name |-> "Spotify",
             details |-> IF Truthy(spotifyActivity.details)
                         THEN spotifyActivity.details \o " - "
                                  \o Interp(spotifyActivity.state)
                         ELSE ""]
       ELSE IF Found(customStatus) /\ Truthy(customStatus.state)
               /\ notOffline(status)
       THEN [kind |-> "Status",
             name |-> (IF Truthy(customStatus.emoji)
                       THEN customStatus.emoji \o " " ELSE "")
                          \o customStatus.state,
             details |-> ""]
       ELSE NoHTML

\* updateActivity(activities, status) on page d: the page afterwards, and
\* whether the call threw (appendChild on a missing .profile-info).
updateActivity(d, activities, status) ==
    IF ~d.act /\ ~d.profile
    THEN [dom |-> d, threw |-> TRUE]
    ELSE LET d1 == IF d.act THEN d
                   ELSE [d EXCEPT !.act = TRUE, !.actHTML = NoHTML,
                                  !.actDisplay = "initial"]
             html == shownActivity(activities, status)
         IN [dom |-> IF html # NoHTML
                     THEN [d1 EXCEPT !.actHTML = html, !.actDisplay = "block"]
                     ELSE [d1 EXCEPT !.actDisplay = "none"],
             threw |-> FALSE]

\* userData.activities || []
activitiesOf(userData) ==
    IF "activities" \in DOMAIN userData THEN userData.activities ELSE <<>>

\* updateStatus(userData) on page d.
updateStatus(d, userData) ==
    IF ~d.dot \/ ~d.text
    THEN [dom |-> d, threw |-> FALSE]
    ELSE LET status == userData.discord_status
             config == configOf(status)
             d1 == [d EXCEPT
                      !.background = SetStyle(@, config.color),
                      !.boxShadow = SetStyle(@, config.shadow),
                      !.textContent = SetText(config.text),
                      !.color = SetStyle(@, config.color)]
         IN updateActivity(d1, activitiesOf(userData), status)

(***************************************************************************)
(* The connection manager.  A handler is a function of the manager's       *)
(* fields, gathered in a record m; an action applies one to the variables. *)
(***************************************************************************)
Fields ==
    [websocket |-> websocket, socks |-> socks,
     reconnectAttempts |-> reconnectAttempts, timers |-> timers,
     intervals |-> intervals, dom |-> dom, fallbackCalls |-> fallbackCalls,
     arg |-> NoSnap, out |-> <<>>, threw |-> FALSE]

Assign(m) ==
    /\ websocket' = m.websocket
    /\ socks' = m.socks
    /\ reconnectAttempts' = m.reconnectAttempts
    /\ timers' = m.timers
    /\ intervals' = m.intervals
    /\ dom' = m.dom
    /\ fallbackCalls' = m.fallbackCalls
    /\ arg' = m.arg
    /\ out' = m.out
    /\ threw' = m.threw

\* this.updateStatus(userData) as a step of a handler.
render(m, userData) ==
    LET r == updateStatus(m.dom, userData)
    IN [m EXCEPT !.dom = r.dom, !.threw = r.threw, !.arg = userData]

\* this.websocket.send(...): a TypeError on null, an InvalidStateError on a
\* connecting socket, nothing on a closing or closed one.
send(m, op) ==
    IF m.websocket = 0 THEN [m EXCEPT !.threw = TRUE]
    ELSE CASE m.socks[m.websocket].readyState = "CONNECTING" ->
                [m EXCEPT !.threw = TRUE]
           [] m.socks[m.websocket].readyState = "OPEN" ->
                [m EXCEPT !.out = Append(@, [sock |-> m.websocket, op |-> op])]
           [] OTHER -> m

\* WebSocket.close() with no argument never throws; it acts on a connecting
\* or open socket only.
closeSocket(m, s) ==
    IF m.socks[s].readyState \in {"CONNECTING", "OPEN"}
    THEN [m EXCEPT !.socks[s].readyState = "CLOSING"]
    ELSE m

connectWebSocket(m) ==
    [m EXCEPT !.socks = Append(@, [readyState |-> "CONNECTING",
                                   established |-> FALSE]),
              !.websocket = Len(m.socks) + 1]

\* The local clock and Math.random() read by the fallback: getHours() at
\* and around the bounds 9 and 23 of its range 0..23, and the random number
\* in tenths, at and around the thresholds 0.4 and 0.8.
Hours == {0, 8, 9, 12, 23}
Tenths == {0, 4, 5, 8, 9}
Clocks == [hour : Hours, rnd : Tenths]
NoClock == [hour |-> -1, rnd |-> -1]

fallbackStatus(clock) ==
    IF clock.hour >= 9 /\ clock.hour <= 23
    THEN (IF clock.rnd > 4 THEN "online" ELSE "idle")
    ELSE (IF clock.rnd > 8 THEN "dnd" ELSE "offline")

\* updateFallbackStatus()
updateFallbackStatus(m, clock) ==
    render(m, [discord_status |-> fallbackStatus(clock), activities |-> <<>>])

\* useFallback(): an exception of the first render leaves before setInterval.
useFallback(m, clock) ==
    LET m1 == updateFallbackStatus([m EXCEPT !.fallbackCalls = @ + 1], clock)
    IN IF m1.threw THEN m1 ELSE [m1 EXCEPT !.intervals = @ + 1]

\* A variant that compares with <= and so allows one retry more.
mayRetryMutantInclusive(m) == m.reconnectAttempts <= maxReconnectAttempts

mayRetry(m) == m.reconnectAttempts < maxReconnectAttempts

\* A variant with the same delay for every attempt.
reconnectDelayMutantFlat(attempts) == BaseDelay

\* 3000 * this.reconnectAttempts, read after the increment.
reconnectDelay(attempts) == BaseDelay * attempts

attemptReconnect(m, clock) ==
    IF mayRetry(m)
    THEN [m EXCEPT !.reconnectAttempts = @ + 1,
                   !.timers = Append(@, reconnectDelay(m.reconnectAttempts + 1))]
    ELSE useFallback(m, clock)

onopen(m) == send([m EXCEPT !.reconnectAttempts = 0], 2)

\* Inbound frames: text that may not be JSON, an opcode, an event name and
\* a payload.
Heartbeat == [json |-> TRUE, op |-> 1, t |-> UNDEF, d |-> NoSnap]
NotJson == [json |-> FALSE, op |-> -1, t |-> UNDEF, d |-> NoSnap]
DataTypes == {"INIT_STATE", "PRESENCE_UPDATE"}
Messages ==
    {Heartbeat, NotJson}
        \cup [json : {TRUE}, op : {0}, t : DataTypes, d : WireSnapshots]
        \cup { [json |-> TRUE, op |-> 0, t |-> "OTHER", d |-> NoSnap],
               [json |-> TRUE, op |-> 3, t |-> UNDEF, d |-> NoSnap] }

\* A variant that takes the acknowledgment opcode for the probe.
isHeartbeatMutantAck(msg) == msg.op = 3

isHeartbeat(msg) == msg.op = 1

\* A variant that forgets the presence updates.
isDataMutantInitOnly(msg) == msg.t = "INIT_STATE"

isData(msg) == msg.t = "INIT_STATE" \/ msg.t = "PRESENCE_UPDATE"

\* JSON.parse of a frame that is not JSON throws out of the handler.
onmessage(m, msg) ==
    IF ~msg.json THEN [m EXCEPT !.threw = TRUE]
    ELSE IF isHeartbeat(msg) THEN send(m, 3)
    ELSE IF isData(msg) THEN render(m, msg.d)
    ELSE m

\* A variant that reconnects after every close.
reconnectOnCloseMutantAlways(wasClean) == TRUE

reconnectOnClose(wasClean) == ~wasClean

\* A variant whose error handler reconnects as well.
reconnectOnErrorMutantToo == TRUE

\* onerror only logs: "Don't attempt reconnect here, let onclose handle it".
reconnectOnError == FALSE

onerror(m, clock) ==
    IF reconnectOnError THEN attemptReconnect(m, clock) ELSE m

onclose(m, wasClean, clock) ==
    IF reconnectOnClose(wasClean) THEN attemptReconnect(m, clock) ELSE m

\* A variant without the null test.
hasSocketMutantUnguarded(m) == TRUE

hasSocket(m) == m.websocket # 0

destroy(m) ==
    IF hasSocket(m)
    THEN (IF m.websocket = 0 THEN [m EXCEPT !.threw = TRUE]
          ELSE closeSocket(m, m.websocket))
    ELSE m

\* fetchInitialStatus(): every exception of the try block is caught, so the
\* call returns true or false and never throws.
FetchOutcomes ==
    {"networkError", "abort", "notOk", "malformed", "successFalse", "data"}

\* A variant whose catch block lets the exception through.
fetchCatchesMutantRethrow == FALSE

fetchCatches == TRUE

fetchInitialStatus(m, outcome, userData) ==
    LET m1 == IF outcome = "data" THEN render(m, userData) ELSE m
        raised == m1.threw \/ outcome \in {"networkError", "abort", "malformed"}
    IN [m |-> [m1 EXCEPT !.threw = FALSE],
        escaped |-> raised /\ ~fetchCatches,
        result |-> outcome = "data" /\ ~m1.threw]

\* init() after the await: connect, or fall back on an exception.
initAfterFetch(r, clock) ==
    IF r.escaped THEN useFallback(r.m, clock) ELSE connectWebSocket(r.m)

(***************************************************************************)
(* The state after construction and the events of the page.                *)
(***************************************************************************)
Event(kind) ==
    [kind |-> kind, sock |-> 0, op |-> -1, t |-> UNDEF, wasClean |-> FALSE,
     outcome |-> "", hour |-> -1]

Pages ==
    {[dot |-> p.dot, text |-> p.text, act |-> p.act, profile |-> p.profile,
      background |-> "initial", boxShadow |-> "initial",
      textContent |-> "initial", color |-> "initial",
      actHTML |-> NoHTML, actDisplay |-> "initial"] :
        p \in [dot : BOOLEAN, text : BOOLEAN, act : BOOLEAN,
               profile : BOOLEAN]}

Constructed ==
    /\ websocket = 0
    /\ socks = <<>>
    /\ reconnectAttempts = 0
    /\ timers = <<>>
    /\ intervals = 0
    /\ fallbackCalls = 0
    /\ destroyed = FALSE
    /\ failures = 0
    /\ retries = 0
    /\ lastData = NoSnap
    /\ dom \in Pages
    /\ dom0 = dom
    /\ ev = Event("construct")
    /\ arg = NoSnap
    /\ out = <<>>
    /\ threw = FALSE

Init == Constructed /\ pc = "fetch"

\* The clock is read only where the fallback renders.
ClocksIf(needed) == IF needed THEN Clocks ELSE {NoClock}

\* fetch() resolved with response.ok and the body is being read.
FetchHeaders ==
    /\ pc = "fetch"
    /\ pc' = "json"
    /\ ev' = [Event("headers") EXCEPT !.outcome = "ok"]
    /\ arg' = NoSnap /\ out' = <<>> /\ threw' = FALSE
    /\ UNCHANGED <<websocket, socks, reconnectAttempts, timers, intervals,
                   dom, fallbackCalls, destroyed, failures, retries,
                   lastData, dom0>>

\* The one-shot fetch settles and init() goes on.
FetchSettle(outcome, userData) ==
    /\ \/ pc = "fetch" /\ outcome \in {"networkError", "abort", "notOk"}
       \/ pc = "json" /\ outcome \in {"malformed", "successFalse", "data"}
    /\ LET r == fetchInitialStatus(Fields, outcome, userData)
       IN \E clock \in ClocksIf(r.escaped) :
            /\ Assign(initAfterFetch(r, clock))
            /\ ev' = [Event("fetch") EXCEPT !.outcome = outcome,
                                            !.hour = clock.hour]
    /\ pc' = "done"
    /\ UNCHANGED <<destroyed, failures, retries, lastData, dom0>>

SockOpen(s) ==
    /\ socks[s].readyState = "CONNECTING"
    /\ Assign(onopen([Fields EXCEPT !.socks[s] =
                         [readyState |-> "OPEN", established |-> TRUE]]))
    /\ failures' = 0
    /\ retries' = 0
    /\ ev' = [Event("open") EXCEPT !.sock = s]
    /\ UNCHANGED <<pc, destroyed, lastData, dom0>>

SockMessage(s, msg) ==
    /\ socks[s].readyState = "OPEN"
    /\ Assign(onmessage(Fields, msg))
    /\ lastData' = IF msg.json /\ msg.t \in DataTypes THEN msg.d ELSE lastData
    /\ ev' = [Event("message") EXCEPT !.sock = s, !.op = msg.op, !.t = msg.t]
    /\ UNCHANGED <<pc, destroyed, failures, retries, dom0>>

\* The close event, in the same task as the error event that precedes it
\* when the connection failed; only a connection that was established can
\* end with a closing handshake.
SockClose(s, wasClean) ==
    /\ socks[s].readyState \in {"CONNECTING", "OPEN", "CLOSING"}
    /\ wasClean => socks[s].established
    /\ LET m == [Fields EXCEPT !.socks[s] = [readyState |-> "CLOSED",
                                             established |-> FALSE]]
       IN \E clock \in ClocksIf(~wasClean /\ ~mayRetry(m)) :
            /\ Assign(onclose(IF wasClean THEN m ELSE onerror(m, clock),
                              wasClean, clock))
            /\ ev' = [Event("close") EXCEPT !.sock = s, !.wasClean = wasClean,
                                            !.hour = clock.hour]
    /\ failures' = IF wasClean THEN failures ELSE failures + 1
    /\ retries' = retries + (Len(timers') - Len(timers))
    /\ UNCHANGED <<pc, destroyed, lastData, dom0>>

\* A reconnection timer fires: () => this.connectWebSocket().
TimerFire(i) ==
    /\ Len(socks) < MaxSockets
    /\ Assign(connectWebSocket(
           [Fields EXCEPT !.timers = SubSeq(timers, 1, i - 1)
                                        \o SubSeq(timers, i + 1, Len(timers))]))
    /\ ev' = Event("timer")
    /\ UNCHANGED <<pc, destroyed, failures, retries, lastData, dom0>>

\* One period of a fallback interval.
FallbackTick(clock) ==
    /\ intervals > 0
    /\ Assign(updateFallbackStatus(Fields, clock))
    /\ ev' = [Event("tick") EXCEPT !.hour = clock.hour]
    /\ UNCHANGED <<pc, destroyed, failures, retries, lastData, dom0>>

\* beforeunload, or any other caller of destroy().
Destroy ==
    /\ Assign(destroy(Fields))
    /\ destroyed' = TRUE
    /\ ev' = Event("destroy")
    /\ UNCHANGED <<pc, failures, retries, lastData, dom0>>

Next ==
    \/ FetchHeaders
    \/ \E outcome \in FetchOutcomes, u \in WireSnapshots :
          FetchSettle(outcome, u)
    \/ \E s \in DOMAIN socks : SockOpen(s)
    \/ \E s \in DOMAIN socks, msg \in Messages : SockMessage(s, msg)
    \/ \E s \in DOMAIN socks, wasClean \in BOOLEAN : SockClose(s, wasClean)
    \/ \E i \in DOMAIN timers : TimerFire(i)
    \/ \E clock \in Clocks : FallbackTick(clock)
    \/ Destroy

Spec == Init /\ [][Next]_vars

(***************************************************************************)
(* The renderer on its own: one call with any snapshot, on any page, fresh *)
(* or already rendered once.                                               *)
(***************************************************************************)
RenderInit == Constructed /\ pc = "render"

\* An earlier render, whose traces the call under test finds on the page.
EarlierRender(userData) ==
    /\ pc = "render"
    /\ pc' = "primed"
    /\ Assign(render(Fields, userData))
    /\ ev' = Event("earlier")
    /\ UNCHANGED <<destroyed, failures, retries, lastData, dom0>>

CallUpdateStatus(userData) ==
    /\ pc \in {"render", "primed"}
    /\ pc' = "rendered"
    /\ Assign(render(Fields, userData))
    /\ ev' = Event("updateStatus")
    /\ UNCHANGED <<destroyed, failures, retries, lastData, dom0>>

CallUpdateActivity(activities, status) ==
    /\ pc \in {"render", "primed"}
    /\ pc' = "rendered"
    /\ LET r == updateActivity(dom, activities, status)
       IN Assign([Fields EXCEPT
                    !.dom = r.dom, !.threw = r.threw,
                    !.arg = [discord_status |-> status,
                             activities |-> activities]])
    /\ ev' = Event("updateActivity")
    /\ UNCHANGED <<destroyed, failures, retries, lastData, dom0>>

RenderNext ==
    \/ \E u \in WireSnapshots : EarlierRender(u)
    \/ \E u \in Snapshots : CallUpdateStatus(u)
    \/ \E activities \in ActivityLists, status \in Statuses :
          CallUpdateActivity(activities, status)

RenderSpec == RenderInit /\ [][RenderNext]_vars

(***************************************************************************)
(* Properties.                                                             *)
(***************************************************************************)
SocketAlive(s) == socks[s].readyState \in {"CONNECTING", "OPEN"}

AllClosed == \A s \in DOMAIN socks : socks[s].readyState = "CLOSED"

Min(a, b) == IF a < b THEN a ELSE b

\* What the visitor sees: the indicator, and the activity line when shown.
Visible(d) ==
    [background |-> d.background, boxShadow |-> d.boxShadow,
     textContent |-> d.textContent, color |-> d.color,
     activity |-> IF d.act /\ d.actDisplay = "block" THEN d.actHTML
                  ELSE NoHTML]

\* C1, as stated: once 5 consecutive unclean closes have happened with no
\* open in between, the manager has transitioned to Fallback.
C1_FallbackAfterFiveCloses ==
    failures >= maxReconnectAttempts => fallbackCalls > 0

\* C1, amended: the attempt counter counts the retries scheduled since the
\* last open, one per unclean close and at most 5; Fallback is entered by
\* the 6th consecutive unclean close and by nothing else, that close
\* schedules no retry, and once Fallback is entered no retry is pending and
\* no connection exists that could schedule one.
C1_ReconnectCeiling ==
    /\ reconnectAttempts = retries
    /\ retries = Min(failures, maxReconnectAttempts)
    /\ failures <= maxReconnectAttempts + 1
    /\ fallbackCalls > 0 <=> failures = maxReconnectAttempts + 1
    /\ fallbackCalls > 0 => timers = <<>> /\ AllClosed

C1_Witness ==
    /\ fallbackCalls = 1
    /\ failures = maxReconnectAttempts + 1
    /\ retries = maxReconnectAttempts
    /\ ev.kind = "close"

\* C2: a clean close changes neither the attempt counter nor the pending
\* reconnections nor the fallback; an unclean close either schedules
\* exactly one reconnection or enters Fallback, never both and never
\* neither.
C2_CloseHandling ==
    [][ev'.kind = "close" =>
         IF ev'.wasClean
         THEN /\ reconnectAttempts' = reconnectAttempts
              /\ timers' = timers
              /\ fallbackCalls' = fallbackCalls
              /\ intervals' = intervals
              /\ Len(socks') = Len(socks)
         ELSE \/ /\ Len(timers') = Len(timers) + 1
                 /\ fallbackCalls' = fallbackCalls
                 /\ intervals' = intervals
              \/ /\ timers' = timers
                 /\ fallbackCalls' = fallbackCalls + 1]_vars

C2_Witness ==
    /\ ev.kind = "close"
    /\ ev.wasClean
    /\ timers = <<>>
    /\ fallbackCalls = 0
    /\ AllClosed

\* C3: once Fallback is entered a 60-second interval keeps rendering, and
\* every synthetic snapshot has no activities, hides the activity line and
\* has a status of the pair that goes with the local hour.
C3_FallbackRendering ==
    /\ fallbackCalls > 0 => intervals >= 1
    /\ ev.hour # -1 =>
         /\ arg.activities = <<>>
         /\ IF ev.hour >= 9 /\ ev.hour <= 23
            THEN arg.discord_status \in {"online", "idle"}
            ELSE arg.discord_status \in {"dnd", "offline"}
         /\ (dom.dot /\ dom.text /\ ~threw) => dom.actDisplay = "none"

\* Beside C3: apart from the page on which the first render
\* throws, exactly one interval exists once Fallback is entered.
FallbackIntervalUnlessThrown ==
    (fallbackCalls > 0 /\ ~(dom0.dot /\ dom0.text /\ ~dom0.act /\ ~dom0.profile))
        => intervals = 1

\* C4: nothing happens on the connection side before the fetch has settled;
\* whatever the outcome, the step that settles it opens exactly one
\* connection, enters no fallback and lets no exception out, and it renders
\* a snapshot only when the outcome is a successful envelope.
C4_FetchNeverBlocks ==
    /\ [](pc # "done" =>
            socks = <<>> /\ websocket = 0 /\ fallbackCalls = 0 /\ ~threw)
    /\ [][(pc # "done" /\ pc' = "done") =>
            /\ Len(socks') = 1
            /\ websocket' = 1
            /\ socks'[1].readyState = "CONNECTING"
            /\ fallbackCalls' = 0
            /\ intervals' = 0
            /\ ~threw'
            /\ IF ev'.outcome = "data" THEN arg' \in WireSnapshots
               ELSE arg' = NoSnap /\ dom' = dom]_vars

C4_Witness ==
    /\ pc = "done"
    /\ ev.kind = "fetch"
    /\ ev.outcome = "abort"
    /\ Len(socks) = 1
    /\ socks[1].readyState = "CONNECTING"

\* C5: unless destroy() was called, once init() has gone past the fetch the
\* manager is never without all three of: a connecting or open connection,
\* a pending reconnection, an active fallback interval.
C5_NoDeadEnd ==
    (pc = "done" /\ ~destroyed) =>
        \/ \E s \in DOMAIN socks : SocketAlive(s)
        \/ timers # <<>>
        \/ intervals > 0

\* C6: destroy() never throws; with no connection object it changes
\* nothing, and an open connection is closing afterwards.
C6_TeardownSafe ==
    [][ev'.kind = "destroy" =>
         /\ ~threw'
         /\ websocket = 0 =>
              UNCHANGED <<pc, websocket, socks, reconnectAttempts, timers,
                          intervals, dom, fallbackCalls>>
         /\ (websocket # 0 /\ socks[websocket].readyState = "OPEN") =>
              socks'[websocket].readyState = "CLOSING"
         /\ UNCHANGED <<reconnectAttempts, timers, intervals, dom,
                        fallbackCalls, websocket>>]_vars

C6_Witness ==
    /\ ev.kind = "destroy"
    /\ websocket # 0
    /\ socks[websocket].readyState = "CLOSING"
    /\ socks[websocket].established

\* C7: the handling of a message with op = 1 sends exactly one {op: 3}, on
\* the connection the message came in on, and changes nothing else.
C7_HeartbeatReply ==
    [][(ev'.kind = "message" /\ ev'.op = 1) =>
         /\ out' = <<[sock |-> ev'.sock, op |-> 3]>>
         /\ ~threw'
         /\ arg' = NoSnap
         /\ UNCHANGED <<dom, reconnectAttempts, socks, websocket, timers,
                        intervals, fallbackCalls, pc>>]_vars

C7_Witness ==
    /\ ev.kind = "message"
    /\ ev.op = 1
    /\ out = <<[sock |-> ev.sock, op |-> 3]>>
    /\ lastData # NoSnap

ClaimedConfig(status) ==
    CASE status = "online" -> <<"#555", "0 0 5px #555", "Online">>
      [] status = "idle" -> <<"#666", "0 0 5px #666", "Away">>
      [] status = "dnd" -> <<"#777", "0 0 5px #777", "Busy">>
      [] OTHER -> <<"#333", "0 0 5px #333", "Offline">>

\* C9: after updateStatus has returned on a page with both indicator
\* elements, colour, shadow and label are the table's entry for a
\* recognized status and the offline entry for every other value.
C9_StatusMapping ==
    (ev.kind = "updateStatus" /\ dom.dot /\ dom.text /\ ~threw) =>
        /\ <<dom.background, dom.boxShadow, dom.textContent>>
              = ClaimedConfig(arg.discord_status)
        /\ dom.color = dom.background

\* The places of a list holding a playing, a Spotify, a custom-status entry.
Playing(seq) ==
    {i \in DOMAIN seq :
        seq[i].type = 0 /\ seq[i].name \notin {"Spotify", "Custom Status"}}

Listening(seq) == {i \in DOMAIN seq : seq[i].name = "Spotify"}

Custom(seq) == {i \in DOMAIN seq : seq[i].type = 4}

First(seq, at) == seq[CHOOSE i \in at : \A j \in at : i <= j]

ShownKind(d) == Visible(d).activity.kind

\* The kind of activity the spec promises for a list and a status.
ClaimedKind(activities, status) ==
    IF status = "offline" THEN ""
    ELSE IF Playing(activities) # {} THEN "Playing"
    ELSE IF Listening(activities) # {} THEN "Listening to"
    ELSE IF Custom(activities) # {} THEN "Status"
    ELSE ""

\* C10, as stated: whenever updateActivity returns, the activity shown is
\* the playing one, else the Spotify one, else the custom status if any is
\* present, and none when the status is offline or nothing qualifies.
C10_SelectionAsStated ==
    (ev.kind = "updateActivity" /\ ~threw) =>
        ShownKind(dom) = ClaimedKind(arg.activities, arg.discord_status)

\* The kind and name of the activity updateActivity is to show.
AmendedChoice(activities, status) ==
    IF status = "offline" THEN <<"", "">>
    ELSE IF Playing(activities) # {}
    THEN <<"Playing", First(activities, Playing(activities)).name>>
    ELSE IF Listening(activities) # {} THEN <<"Listening to", "Spotify">>
    ELSE IF Custom(activities) # {}
            /\ Truthy(First(activities, Custom(activities)).state)
    THEN <<"Status",
           IF First(activities, Custom(activities)).emoji = UNDEF
           THEN First(activities, Custom(activities)).state
           ELSE First(activities, Custom(activities)).emoji \o " "
                    \o First(activities, Custom(activities)).state>>
    ELSE <<"", "">>

\* C10, amended: the custom status is shown only when the first type-4
\* activity has a non-empty state text; and on a page with neither the
\* activity element nor the profile container the call throws and shows
\* nothing.
C10_ActivitySelection ==
    ev.kind = "updateActivity" =>
        IF threw THEN ~dom.act /\ ~dom.profile /\ ShownKind(dom) = ""
        ELSE /\ <<ShownKind(dom), Visible(dom).activity.name>>
                   = AmendedChoice(arg.activities, arg.discord_status)
             /\ dom.act
             /\ dom.actDisplay \in {"block", "none"}

C10_Witness ==
    /\ ev.kind = "updateActivity"
    /\ ~threw
    /\ arg.activities = <<CustomEmojiOnly, CustomStatus>>
    /\ arg.discord_status = "online"
    /\ dom.actDisplay = "none"
    /\ dom.actHTML.kind = "Playing"

\* C11: a render call never ends with an exception, whichever of the four
\* elements the page lacks, and without the status dot or the status text
\* it leaves the page as it was loaded.
C11_MissingSurfaceTolerated ==
    ev.kind \in {"earlier", "updateStatus"} =>
        /\ ~threw
        /\ (~dom0.dot \/ ~dom0.text) => dom = dom0

\* C12: the reconnection scheduled as attempt N since the last open, N in
\* 1..5, gets the delay N x 3000 ms; a pending reconnection always carries
\* the delay of the current attempt number, so the delays of one streak
\* grow by 3000 ms per attempt and start again at 3000 ms after an open.
C12_ReconnectDelay ==
    /\ [](\A i \in DOMAIN timers :
             /\ retries \in 1..maxReconnectAttempts
             /\ timers[i] = retries * BaseDelay)
    /\ [][Len(timers') > Len(timers) =>
             /\ retries' = retries + 1
             /\ timers' = Append(timers, retries' * BaseDelay)]_vars

C12_Witness ==
    /\ timers = <<maxReconnectAttempts * BaseDelay>>
    /\ retries = maxReconnectAttempts
    /\ ev.kind = "close"
    /\ AllClosed

NotClosed == {s \in DOMAIN socks : socks[s].readyState # "CLOSED"}

\* C13: connections not yet closed and pending reconnections are never
\* more than one in all; useFallback runs at most once and at most one
\* fallback interval exists; once Fallback is entered there is neither a
\* connection nor a pending reconnection, and the only events left are the
\* interval's ticks and destroy(), which open, schedule and enter nothing.
C13_SingleConnection ==
    /\ [](/\ Cardinality(NotClosed) + Len(timers) <= 1
          /\ fallbackCalls <= 1
          /\ intervals <= 1
          /\ fallbackCalls > 0 => NotClosed = {} /\ timers = <<>>)
    /\ [][fallbackCalls > 0 =>
             /\ ev'.kind \in {"tick", "destroy"}
             /\ socks' = socks
             /\ timers' = timers
             /\ fallbackCalls' = fallbackCalls
             /\ intervals' = intervals
             /\ lastData' = lastData]_vars

C13_Witness ==
    /\ fallbackCalls = 1
    /\ intervals = 1
    /\ ev.kind = "tick"
    /\ Len(socks) = maxReconnectAttempts + 1
    /\ lastData # NoSnap

\* C14: once destroy() has been called, with init() past its fetch, no
\* connection is created, no reconnection is scheduled and Fallback is not
\* entered.
C14_TeardownFinal ==
    [][(destroyed /\ pc = "done") =>
         /\ Len(socks') = Len(socks)
         /\ Len(timers') <= Len(timers)
         /\ fallbackCalls' = fallbackCalls]_vars

\* C15: after a render that completed, a label reading "Offline" goes with
\* a hidden activity line.
C15_OfflineHidesActivity ==
    (ev.kind \in {"earlier", "updateStatus"} /\ ~threw
         /\ dom.textContent = "Offline") =>
        ShownKind(dom) = ""

====
